---- MODULE Spec2Model ----
(***************************************************************************)
(* name2date: set a file's access/modification time from the date-time     *)
(* embedded in its name (src/main.py).                                     *)
(*                                                                         *)
(* Strings are sequences of one-character strings, so that re.search and   *)
(* int() are computed character by character.                              *)
(***************************************************************************)
EXTENDS Integers, Sequences, FiniteSets, TLC

(***************************************************************************)
(* Bounds of the model.                                                    *)
(***************************************************************************)
\* a parsed name is the concatenation of at most MaxPieces pieces
MaxPieces == 2
\* a directory holds at most MaxFiles entries
MaxFiles == 2

(***************************************************************************)
(* Characters and strings.                                                 *)
(***************************************************************************)
DigitChars == <<"0", "1", "2", "3", "4", "5", "6", "7", "8", "9">>

\* the character class \d (ASCII digits)
IsDigit(c) == \E k \in 1..10 : DigitChars[k] = c

DigitVal(c) == (CHOOSE k \in 1..10 : DigitChars[k] = c) - 1

RECURSIVE int(_)
\* int() of a string of decimal digits
int(s) == IF s = <<>> THEN 0
          ELSE 10 * int(SubSeq(s, 1, Len(s) - 1)) + DigitVal(s[Len(s)])

RECURSIVE Pad(_, _)
\* n written with exactly w decimal digits, as the camera writes a field
Pad(n, w) == IF w = 0 THEN <<>>
             ELSE Pad(n \div 10, w - 1) \o <<DigitChars[(n % 10) + 1]>>

(***************************************************************************)
(* Regular expressions: a pattern is a sequence of literal characters and  *)
(* of the class \d; its groups are (offset, length) pairs.                 *)
(***************************************************************************)
D == "\\d"

\* r'PXL_(\d{4})(\d{2})(\d{2})_(\d{2})(\d{2})(\d{2})(\d{3})'
pxl_pattern == <<"P", "X", "L", "_", D, D, D, D, D, D, D, D, "_",
                 D, D, D, D, D, D, D, D, D>>

pxl_groups == <<<<5, 4>>, <<9, 2>>, <<11, 2>>, <<14, 2>>, <<16, 2>>,
                <<18, 2>>, <<20, 3>>>>

\* r'lv_0_(\d{4})(\d{2})(\d{2})(\d{2})(\d{2})(\d{2})'
lv_pattern == <<"l", "v", "_", "0", "_", D, D, D, D, D, D, D, D, D, D, D, D,
                D, D>>

\* lv_groups with the day read before the month
lv_groups_day_first == <<<<6, 4>>, <<12, 2>>, <<10, 2>>, <<14, 2>>, <<16, 2>>,
                         <<18, 2>>>>

lv_groups == <<<<6, 4>>, <<10, 2>>, <<12, 2>>, <<14, 2>>, <<16, 2>>,
               <<18, 2>>>>

\* the pattern matches s at position i
MatchAt(pattern, s, i) ==
    /\ i + Len(pattern) - 1 <= Len(s)
    /\ \A k \in 1..Len(pattern) :
          IF pattern[k] = D THEN IsDigit(s[i + k - 1])
          ELSE s[i + k - 1] = pattern[k]

RECURSIVE SearchFrom(_, _, _)
\* scan left to right from position i; 0 when no position matches
SearchFrom(pattern, s, i) ==
    IF i + Len(pattern) - 1 > Len(s) THEN 0
    ELSE IF MatchAt(pattern, s, i) THEN i
    ELSE SearchFrom(pattern, s, i + 1)

\* re.search: the start of the leftmost match, 0 for no match
re_search(pattern, s) == SearchFrom(pattern, s, 1)

\* map(int, match.groups()) of the match starting at i
groups(grps, s, i) ==
    [g \in 1..Len(grps) |->
        int(SubSeq(s, i + grps[g][1] - 1, i + grps[g][1] + grps[g][2] - 2))]

(***************************************************************************)
(* datetime                                                                *)
(***************************************************************************)
MINYEAR == 1
MAXYEAR == 9999

is_leap(year) == year % 4 = 0 /\ (year % 100 # 0 \/ year % 400 = 0)

days_in_month(year, month) ==
    IF month = 2 THEN (IF is_leap(year) THEN 29 ELSE 28)
    ELSE IF month \in {4, 6, 9, 11} THEN 30 ELSE 31

None == [kind |-> "None"]

ValueError == [kind |-> "ValueError"]

\* datetime(year, month, day, hour, minute, second, microsecond,
\*          tzinfo=timezone.utc): the value, or the ValueError it raises
datetime(year, month, day, hour, minute, second, microsecond) ==
    IF /\ MINYEAR <= year /\ year <= MAXYEAR
       /\ 1 <= month /\ month <= 12
       /\ 1 <= day /\ day <= days_in_month(year, month)
       /\ 0 <= hour /\ hour <= 23
       /\ 0 <= minute /\ minute <= 59
       /\ 0 <= second /\ second <= 59
       /\ 0 <= microsecond /\ microsecond <= 999999
    THEN [kind |-> "datetime", year |-> year, month |-> month, day |-> day,
          hour |-> hour, minute |-> minute, second |-> second,
          microsecond |-> microsecond, tzinfo |-> "UTC"]
    ELSE ValueError

(***************************************************************************)
(* parse_filename as it would be with the milliseconds passed unscaled,    *)
(* and as it would be with the lv_0_ pattern searched first.               *)
(***************************************************************************)
parse_filename_unscaled(name) ==
    LET m1 == re_search(pxl_pattern, name)
        g1 == groups(pxl_groups, name, m1)
        m2 == re_search(lv_pattern, name)
        g2 == groups(lv_groups, name, m2)
    IN  IF m1 # 0
        THEN [ret |-> datetime(g1[1], g1[2], g1[3], g1[4], g1[5], g1[6],
                               g1[7]),
              searched |-> <<"pxl">>]
        ELSE IF m2 # 0
        THEN [ret |-> datetime(g2[1], g2[2], g2[3], g2[4], g2[5], g2[6], 0),
              searched |-> <<"pxl", "lv">>]
        ELSE [ret |-> None, searched |-> <<"pxl", "lv">>]

parse_filename_lv_first(name) ==
    LET m1 == re_search(pxl_pattern, name)
        g1 == groups(pxl_groups, name, m1)
        m2 == re_search(lv_pattern, name)
        g2 == groups(lv_groups, name, m2)
    IN  IF m2 # 0
        THEN [ret |-> datetime(g2[1], g2[2], g2[3], g2[4], g2[5], g2[6], 0),
              searched |-> <<"lv">>]
        ELSE IF m1 # 0
        THEN [ret |-> datetime(g1[1], g1[2], g1[3], g1[4], g1[5], g1[6],
                               g1[7] * 1000),
              searched |-> <<"lv", "pxl">>]
        ELSE [ret |-> None, searched |-> <<"lv", "pxl">>]

(***************************************************************************)
(* parse_filename: ret is the datetime or None it returns, or the          *)
(* ValueError that leaves it; searched lists the patterns it searched.     *)
(***************************************************************************)
parse_filename(name) ==
    LET m1 == re_search(pxl_pattern, name)
        g1 == groups(pxl_groups, name, m1)
        m2 == re_search(lv_pattern, name)
        g2 == groups(lv_groups, name, m2)
    IN  IF m1 # 0
        THEN [ret |-> datetime(g1[1], g1[2], g1[3], g1[4], g1[5], g1[6],
                               g1[7] * 1000),
              searched |-> <<"pxl">>]
        ELSE IF m2 # 0
        THEN [ret |-> datetime(g2[1], g2[2], g2[3], g2[4], g2[5], g2[6], 0),
              searched |-> <<"pxl", "lv">>]
        ELSE [ret |-> None, searched |-> <<"pxl", "lv">>]

(***************************************************************************)
(* datetime.timestamp() of an aware datetime is                            *)
(* (dt - _EPOCH).total_seconds(); the difference is kept as the timedelta  *)
(* (days, seconds, microseconds), whose total is the POSIX time.           *)
(***************************************************************************)
days_before_year(year) ==
    LET y == year - 1 IN y * 365 + (y \div 4) - (y \div 100) + (y \div 400)

RECURSIVE days_before_month(_, _)
days_before_month(year, month) ==
    IF month = 1 THEN 0
    ELSE days_before_month(year, month - 1) + days_in_month(year, month - 1)

toordinal(d) ==
    days_before_year(d.year) + days_before_month(d.year, d.month) + d.day

\* date(1970, 1, 1).toordinal()
EPOCH_ORDINAL == 719163

timestamp(d) ==
    [days |-> toordinal(d) - EPOCH_ORDINAL,
     seconds |-> d.hour * 3600 + d.minute * 60 + d.second,
     microseconds |-> d.microsecond]

(***************************************************************************)
(* File names.  A name is built from pieces: tokens written in the two     *)
(* camera formats from a date-time, and other text.                        *)
(***************************************************************************)
Base == [year |-> 2023, month |-> 6, day |-> 15, hour |-> 14, minute |-> 30,
         second |-> 22, ms |-> 123]

\* the date-times the tokens are written from: Base with one field changed
\* to a boundary value on either side of its range, and leap-day cases
DateTimes ==
    {Base}
    \cup {[Base EXCEPT !.year = v] : v \in {0, 1, 9999}}
    \cup {[Base EXCEPT !.month = v] : v \in {0, 1, 12, 13}}
    \cup {[Base EXCEPT !.day = v] : v \in {0, 1, 30, 31, 32}}
    \cup {[Base EXCEPT !.hour = v] : v \in {0, 23, 24}}
    \cup {[Base EXCEPT !.minute = v] : v \in {0, 59, 60}}
    \cup {[Base EXCEPT !.second = v] : v \in {0, 59, 60}}
    \cup {[Base EXCEPT !.ms = v] : v \in {0, 999}}
    \cup {[Base EXCEPT !.year = y, !.month = 2, !.day = 29] :
             y \in {1900, 2000, 2023, 2024}}

\* PXL_YYYYMMDD_HHMMSSXXX
PXLToken(f) ==
    <<"P", "X", "L", "_">> \o Pad(f.year, 4) \o Pad(f.month, 2)
    \o Pad(f.day, 2) \o <<"_">> \o Pad(f.hour, 2) \o Pad(f.minute, 2)
    \o Pad(f.second, 2) \o Pad(f.ms, 3)

\* lv_0_YYYYMMDDHHMMSS
LvToken(f) ==
    <<"l", "v", "_", "0", "_">> \o Pad(f.year, 4) \o Pad(f.month, 2)
    \o Pad(f.day, 2) \o Pad(f.hour, 2) \o Pad(f.minute, 2)
    \o Pad(f.second, 2)

\* "random_video"
TxtRandom == <<"r", "a", "n", "d", "o", "m", "_", "v", "i", "d", "e", "o">>
\* "(1)"
TxtParen == <<"(", "1", ")">>
\* ".NIGHT"
TxtNight == <<".", "N", "I", "G", "H", "T">>
\* "7"
TxtDigit == <<"7">>
\* "PXL_20230615-143022123": the separator is not "_"
TxtNearPXL == <<"P", "X", "L", "_", "2", "0", "2", "3", "0", "6", "1", "5",
                "-", "1", "4", "3", "0", "2", "2", "1", "2", "3">>
\* "lv_1_20230615143022": the marker is not lv_0_
TxtNearLv == <<"l", "v", "_", "1", "_", "2", "0", "2", "3", "0", "6", "1",
               "5", "1", "4", "3", "0", "2", "2">>
ExtMp4 == <<".", "m", "p", "4">>
ExtMov == <<".", "m", "o", "v">>
ExtAvi == <<".", "a", "v", "i">>
ExtMkv == <<".", "m", "k", "v">>
ExtJpg == <<".", "j", "p", "g">>
ExtTxt == <<".", "t", "x", "t">>

Texts == {TxtRandom, TxtParen, TxtNight, TxtDigit, TxtNearPXL, TxtNearLv,
          ExtMp4}

Pieces ==
    {[kind |-> "pxl", f |-> f, chars |-> PXLToken(f)] : f \in DateTimes}
    \cup {[kind |-> "lv", f |-> f, chars |-> LvToken(f)] : f \in DateTimes}
    \cup {[kind |-> "text", f |-> Base, chars |-> t] : t \in Texts}

RECURSIVE Flatten(_)
Flatten(ps) == IF ps = <<>> THEN <<>> ELSE Head(ps).chars \o Flatten(Tail(ps))

PieceSeqs == UNION {[1..n -> Pieces] : n \in 0..MaxPieces}

(***************************************************************************)
(* The directory.                                                          *)
(***************************************************************************)
OtherDay == [Base EXCEPT !.day = 1]
BadMonth == [Base EXCEPT !.month = 13]
BadHour == [Base EXCEPT !.hour = 24]

\* the names an entry of the directory can have
DirNames ==
    {PXLToken(Base) \o ExtMp4,
     PXLToken(Base) \o TxtParen \o ExtJpg,
     LvToken(OtherDay) \o ExtMp4,
     TxtRandom \o ExtMp4,
     TxtRandom \o ExtMov,
     PXLToken(BadMonth) \o ExtMp4,
     LvToken(BadHour) \o ExtJpg,
     PXLToken(Base) \o ExtTxt}

\* file_extensions = ['*.mp4', '*.mov', '*.avi', '*.mkv', '*.jpg']
file_extensions == <<ExtMp4, ExtMov, ExtAvi, ExtMkv, ExtJpg>>

\* fnmatch of the pattern '*' + ext; glob skips hidden names
fnmatch(name, ext) ==
    /\ Len(name) >= Len(ext)
    /\ SubSeq(name, Len(name) - Len(ext) + 1, Len(name)) = ext
    /\ name[1] # "."

\* the position in file_extensions of the pattern that lists the name, or 0
ExtRank(name) ==
    IF \E k \in 1..Len(file_extensions) : fnmatch(name, file_extensions[k])
    THEN CHOOSE k \in 1..Len(file_extensions) :
            fnmatch(name, file_extensions[k])
    ELSE 0

\* the orders in which the two nested loops can visit the entries: pattern
\* after pattern, the entries of one pattern in any order
Enumerations(es) ==
    LET listed == {e \in es : ExtRank(e) # 0}
        n == Cardinality(listed)
    IN  {q \in [1..n -> listed] :
            /\ \A i, j \in 1..n : i # j => q[i] # q[j]
            /\ \A i, j \in 1..n : i < j => ExtRank(q[i]) <= ExtRank(q[j])}

\* the times every entry has before the first run
InitialTime == [days |-> 20000, seconds |-> 0, microseconds |-> 0]

InitialTimes(es) ==
    [e \in es |-> [atime |-> InitialTime, mtime |-> InitialTime]]

Line(text, file) == [line |-> text, file |-> file]

NoFile == <<>>

NoRun == [pc |-> "none"]

VARIABLES
    pieces,         \* the pieces the parsed name was built from
    filename,       \* the name given to parse_filename
    dt,             \* what parse_filename gave for filename
    searched,       \* the patterns parse_filename searched for filename
    pc,             \* where the program is
    isdir,          \* os.path.isdir(args.directory)
    verbose,        \* args.verbose, capped at 2
    entries,        \* the names of the entries of the directory
    files,          \* the paths in the order the loops visit them
    failing,        \* the entries on which os.utime raises
    times,          \* the access and modification time of every entry
    visited,        \* the number of files the loop body was entered for
    success_count,
    failure_count,
    out,            \* the lines printed
    utimed,         \* the files os.utime was called on in this run
    run,            \* "first", or how the second run was started
    first           \* the outcome of the first run

vars == <<pieces, filename, dt, searched, pc, isdir, verbose, entries, files,
          failing, times, visited, success_count, failure_count, out, utimed,
          run, first>>

dirvars == <<isdir, verbose, entries, files, failing, times, visited,
             success_count, failure_count, out, utimed, run, first>>

(***************************************************************************)
(* parse_filename on its own.                                              *)
(***************************************************************************)
ParseInit ==
    /\ pieces \in PieceSeqs
    /\ filename = Flatten(pieces)
    /\ dt = None
    /\ searched = <<>>
    /\ pc = "parse"
    /\ isdir = TRUE
    /\ verbose = 0
    /\ entries = {}
    /\ files = <<>>
    /\ failing = {}
    /\ times = <<>>
    /\ visited = 0
    /\ success_count = 0
    /\ failure_count = 0
    /\ out = <<>>
    /\ utimed = {}
    /\ run = "first"
    /\ first = NoRun

call_parse_filename ==
    /\ pc = "parse"
    /\ dt' = parse_filename(filename).ret
    /\ searched' = parse_filename(filename).searched
    /\ pc' = IF dt'.kind = "ValueError" THEN "parse_raised" ELSE "parse_returned"
    /\ UNCHANGED <<pieces, filename>>
    /\ UNCHANGED dirvars

ParseNext == call_parse_filename

ParseSpec == ParseInit /\ [][ParseNext]_vars

(***************************************************************************)
(* The program on a directory.                                             *)
(***************************************************************************)
Init ==
    /\ pieces = <<>>
    /\ filename = <<>>
    /\ dt = None
    /\ searched = <<>>
    /\ pc = "main"
    /\ isdir \in BOOLEAN
    /\ verbose \in 0..2
    /\ entries \in {es \in SUBSET DirNames : Cardinality(es) <= MaxFiles}
    /\ ~isdir => entries = {}
    /\ files \in Enumerations(entries)
    /\ failing \in SUBSET {e \in entries : ExtRank(e) # 0}
    /\ times = InitialTimes(entries)
    /\ visited = 0
    /\ success_count = 0
    /\ failure_count = 0
    /\ out = <<>>
    /\ utimed = {}
    /\ run = "first"
    /\ first = NoRun

\* main, the path is not a directory: an error line and nothing else
main_invalid ==
    /\ pc = "main"
    /\ ~isdir
    /\ out' = Append(out, Line("Error: not a valid directory", NoFile))
    /\ pc' = "exit"
    /\ UNCHANGED <<pieces, filename, dt, searched, isdir, verbose, entries,
                   files, failing, times, visited, success_count,
                   failure_count, utimed, run, first>>

\* main calls process_directory, which zeroes its counters
main_process ==
    /\ pc = "main"
    /\ isdir
    /\ out' = out \o <<Line("Processing directory", NoFile),
                       Line("Expected timezone in the filenames: UTC", NoFile)>>
    /\ success_count' = 0
    /\ failure_count' = 0
    /\ pc' = "loop"
    /\ UNCHANGED <<pieces, filename, dt, searched, isdir, verbose, entries,
                   files, failing, times, visited, utimed, run, first>>

\* update_file_modification_time with an except clause that prints nothing
update_file_modification_time_silent(filepath, d) ==
    IF filepath \in failing
    THEN [ok |-> FALSE, times |-> times, out |-> <<>>]
    ELSE [ok |-> TRUE,
          times |-> [times EXCEPT ![filepath] =
                        [atime |-> timestamp(d), mtime |-> timestamp(d)]],
          out |-> <<>>]

\* update_file_modification_time returning True only when it changed the
\* modification time
update_file_modification_time_if_changed(filepath, d) ==
    IF filepath \in failing
    THEN [ok |-> FALSE, times |-> times,
          out |-> <<Line("Error updating", filepath)>>]
    ELSE [ok |-> times[filepath].mtime # timestamp(d),
          times |-> [times EXCEPT ![filepath] =
                        [atime |-> timestamp(d), mtime |-> timestamp(d)]],
          out |-> <<>>]

\* update_file_modification_time(filepath, d): what it returns, the times it
\* leaves and the lines it prints
update_file_modification_time(filepath, d) ==
    IF filepath \in failing
    THEN [ok |-> FALSE, times |-> times,
          out |-> <<Line("Error updating", filepath)>>]
    ELSE [ok |-> TRUE,
          times |-> [times EXCEPT ![filepath] =
                        [atime |-> timestamp(d), mtime |-> timestamp(d)]],
          out |-> <<>>]

Processing(name) ==
    IF verbose >= 2 THEN <<Line("Processing", name)>> ELSE <<>>

\* one pass of the loop body: the name has a date-time and os.utime succeeds
visit_updated ==
    /\ pc = "loop"
    /\ visited < Len(files)
    /\ LET filepath == files[visited + 1]
           p == parse_filename(filepath)
           u == update_file_modification_time(filepath, p.ret)
       IN  /\ p.ret.kind = "datetime"
           /\ u.ok
           /\ filename' = filepath
           /\ dt' = p.ret
           /\ searched' = p.searched
           /\ times' = u.times
           /\ utimed' = utimed \cup {filepath}
           /\ success_count' = success_count + 1
           /\ out' = out \o Processing(filepath) \o u.out
                     \o (IF verbose >= 2 THEN <<Line("Updated", filepath)>>
                         ELSE <<>>)
    /\ visited' = visited + 1
    /\ UNCHANGED <<pieces, pc, isdir, verbose, entries, files, failing,
                   failure_count, run, first>>

\* one pass of the loop body: the name has a date-time and os.utime raises
visit_update_failed ==
    /\ pc = "loop"
    /\ visited < Len(files)
    /\ LET filepath == files[visited + 1]
           p == parse_filename(filepath)
           u == update_file_modification_time(filepath, p.ret)
       IN  /\ p.ret.kind = "datetime"
           /\ ~u.ok
           /\ filename' = filepath
           /\ dt' = p.ret
           /\ searched' = p.searched
           /\ times' = u.times
           /\ utimed' = utimed \cup {filepath}
           /\ failure_count' = failure_count + 1
           /\ out' = out \o Processing(filepath) \o u.out
    /\ visited' = visited + 1
    /\ UNCHANGED <<pieces, pc, isdir, verbose, entries, files, failing,
                   success_count, run, first>>

\* visit_skipped counting the file as a success
visit_skipped_as_success ==
    /\ pc = "loop"
    /\ visited < Len(files)
    /\ LET filepath == files[visited + 1]
           p == parse_filename(filepath)
       IN  /\ p.ret.kind = "None"
           /\ filename' = filepath
           /\ dt' = p.ret
           /\ searched' = p.searched
           /\ out' = out \o Processing(filepath)
                     \o (IF verbose >= 1 THEN <<Line("Skipped", filepath)>>
                         ELSE <<>>)
    /\ success_count' = success_count + 1
    /\ visited' = visited + 1
    /\ UNCHANGED <<pieces, pc, isdir, verbose, entries, files, failing, times,
                   utimed, failure_count, run, first>>

\* visit_skipped with the increment under the verbosity test
visit_skipped_when_verbose ==
    /\ pc = "loop"
    /\ visited < Len(files)
    /\ LET filepath == files[visited + 1]
           p == parse_filename(filepath)
       IN  /\ p.ret.kind = "None"
           /\ filename' = filepath
           /\ dt' = p.ret
           /\ searched' = p.searched
           /\ out' = out \o Processing(filepath)
                     \o (IF verbose >= 1 THEN <<Line("Skipped", filepath)>>
                         ELSE <<>>)
    /\ failure_count' = IF verbose >= 1 THEN failure_count + 1
                        ELSE failure_count
    /\ visited' = visited + 1
    /\ UNCHANGED <<pieces, pc, isdir, verbose, entries, files, failing, times,
                   utimed, success_count, run, first>>

\* one pass of the loop body: parse_filename returns None
visit_skipped ==
    /\ pc = "loop"
    /\ visited < Len(files)
    /\ LET filepath == files[visited + 1]
           p == parse_filename(filepath)
       IN  /\ p.ret.kind = "None"
           /\ filename' = filepath
           /\ dt' = p.ret
           /\ searched' = p.searched
           /\ out' = out \o Processing(filepath)
                     \o (IF verbose >= 1 THEN <<Line("Skipped", filepath)>>
                         ELSE <<>>)
    /\ failure_count' = failure_count + 1
    /\ visited' = visited + 1
    /\ UNCHANGED <<pieces, pc, isdir, verbose, entries, files, failing, times,
                   utimed, success_count, run, first>>

\* one pass of the loop body: datetime() raises ValueError in parse_filename;
\* nothing catches it, it leaves process_directory and main
visit_raised ==
    /\ pc = "loop"
    /\ visited < Len(files)
    /\ LET filepath == files[visited + 1]
           p == parse_filename(filepath)
       IN  /\ p.ret.kind = "ValueError"
           /\ filename' = filepath
           /\ dt' = p.ret
           /\ searched' = p.searched
           /\ out' = out \o Processing(filepath)
    /\ visited' = visited + 1
    /\ pc' = "raised"
    /\ UNCHANGED <<pieces, isdir, verbose, entries, files, failing, times,
                   utimed, success_count, failure_count, run, first>>

\* the loops are over: process_directory returns and main prints the summary
process_return ==
    /\ pc = "loop"
    /\ visited = Len(files)
    /\ pc' = "returned"
    /\ out' = out \o <<Line("Summary", NoFile),
                       Line("Successfully processed", success_count),
                       Line("Failed or skipped", failure_count)>>
    /\ UNCHANGED <<pieces, filename, dt, searched, isdir, verbose, entries,
                   files, failing, times, visited, success_count,
                   failure_count, utimed, run, first>>

\* the program is run a second time on the directory: "again" on the
\* directory as the first run left it, with the same arguments; "fresh" on
\* the directory as it was before the first run, with any verbosity
second_run ==
    /\ pc \in {"returned", "raised"}
    /\ run = "first"
    /\ first' = [pc |-> pc, success_count |-> success_count,
                 failure_count |-> failure_count, times |-> times,
                 verbose |-> verbose]
    /\ \E m \in {"again", "fresh"}, v \in 0..2 :
          /\ m = "again" => v = verbose
          /\ run' = m
          /\ verbose' = v
          /\ times' = IF m = "fresh" THEN InitialTimes(entries) ELSE times
    /\ out' = <<Line("Processing directory", NoFile),
                Line("Expected timezone in the filenames: UTC", NoFile)>>
    /\ visited' = 0
    /\ success_count' = 0
    /\ failure_count' = 0
    /\ utimed' = {}
    /\ pc' = "loop"
    /\ UNCHANGED <<pieces, filename, dt, searched, isdir, entries, files,
                   failing>>

Next ==
    \/ main_invalid
    \/ main_process
    \/ visit_updated
    \/ visit_update_failed
    \/ visit_skipped
    \/ visit_raised
    \/ process_return
    \/ second_run

Spec == Init /\ [][Next]_vars

(***************************************************************************)
(* What a name was built from, and the calendar.                           *)
(***************************************************************************)
MonthLengths == <<31, 28, 31, 30, 31, 30, 31, 31, 30, 31, 30, 31>>

\* the fields are a date and a time of day of the Gregorian calendar
ValidCalendar(f) ==
    /\ f.year \in 1..9999
    /\ f.month \in 1..12
    /\ f.day >= 1
    /\ f.day <= IF f.month = 2 /\ f.year % 4 = 0
                   /\ (f.year % 100 # 0 \/ f.year % 400 = 0)
                THEN 29 ELSE MonthLengths[f.month]
    /\ f.hour \in 0..23
    /\ f.minute \in 0..59
    /\ f.second \in 0..59

Has(kind) == \E i \in 1..Len(pieces) : pieces[i].kind = kind

\* the fields of the leftmost token of the kind
Leftmost(kind) ==
    pieces[CHOOSE i \in 1..Len(pieces) :
              /\ pieces[i].kind = kind
              /\ \A j \in 1..(i - 1) : pieces[j].kind # kind].f

\* the token the two rules select: the leftmost PXL token, or without any
\* PXL token the leftmost lv_0_ token
Selected == IF Has("pxl") THEN Leftmost("pxl") ELSE Leftmost("lv")

Parsed == pc \in {"parse_returned", "parse_raised"}

\* dt is the UTC date-time of the fields f, with the given microsecond
IsDateTime(f, us) ==
    /\ dt.kind = "datetime"
    /\ dt.year = f.year
    /\ dt.month = f.month
    /\ dt.day = f.day
    /\ dt.hour = f.hour
    /\ dt.minute = f.minute
    /\ dt.second = f.second
    /\ dt.microsecond = us
    /\ dt.tzinfo = "UTC"

\* neither pattern matches the name
NoToken(name) ==
    re_search(pxl_pattern, name) = 0 /\ re_search(lv_pattern, name) = 0

RunOver == pc \in {"returned", "raised"}

(***************************************************************************)
(* Claims.                                                                 *)
(***************************************************************************)

\* C1: when the token the rules select is well-formed and its digits are not
\* a valid calendar date-time, parse_filename returns None and raises
\* nothing.
C1_InvalidTokenIsNotFound ==
    (Parsed /\ (Has("pxl") \/ Has("lv")) /\ ~ValidCalendar(Selected))
        => (pc = "parse_returned" /\ dt = None)

\* C2: once the directory passed validation the program never ends otherwise
\* than by process_directory returning its tally after every enumerated file
\* was visited.
C2_ScanRunsToCompletion ==
    (isdir /\ pc \notin {"main", "loop"})
        => (pc = "returned" /\ visited = Len(files))

\* C3: when the leftmost PXL token of the name has valid calendar values,
\* whatever surrounds it, parse_filename returns the UTC date-time of its
\* digits, the microsecond being 1000 times the three millisecond digits.
C3_PXLFields ==
    (Parsed /\ Has("pxl") /\ ValidCalendar(Leftmost("pxl")))
        => (pc = "parse_returned"
            /\ IsDateTime(Leftmost("pxl"), Leftmost("pxl").ms * 1000))

\* a PXL token after other text, with milliseconds 999, was parsed
C3_Witness ==
    /\ pc = "parse_returned"
    /\ Len(pieces) = 2
    /\ pieces[1].kind = "text"
    /\ pieces[2].kind = "pxl"
    /\ pieces[2].f.ms = 999
    /\ dt.kind = "datetime"
    /\ dt.microsecond = 999000

\* C4: when the name has no PXL token and its leftmost lv_0_ token has valid
\* calendar values, parse_filename returns the UTC date-time of its digits
\* with microsecond 0.
C4_LvFields ==
    (Parsed /\ ~Has("pxl") /\ Has("lv") /\ ValidCalendar(Leftmost("lv")))
        => (pc = "parse_returned" /\ IsDateTime(Leftmost("lv"), 0))

\* an lv_0_ token written at 23:59:22 on a leap day, before other text, was
\* parsed
C4_Witness ==
    /\ pc = "parse_returned"
    /\ Len(pieces) = 2
    /\ pieces[1].kind = "lv"
    /\ pieces[1].f.month = 2
    /\ pieces[1].f.day = 29
    /\ pieces[2].kind = "text"
    /\ dt.kind = "datetime"
    /\ dt.day = 29
    /\ dt.microsecond = 0

\* C5: the PXL pattern has priority: a name with a PXL token and an lv_0_
\* token, in either order, gives the date-time of its leftmost PXL token, and
\* the lv_0_ pattern is searched only for a name without any PXL token.
C5_PXLBeforeLv ==
    Parsed =>
        /\ (Has("pxl") /\ Has("lv") /\ ValidCalendar(Leftmost("pxl")))
              => IsDateTime(Leftmost("pxl"), Leftmost("pxl").ms * 1000)
        /\ (\E k \in 1..Len(searched) : searched[k] = "lv") <=> ~Has("pxl")

\* an lv_0_ token followed by a PXL token of another date was parsed to the
\* date of the PXL token
C5_Witness ==
    /\ pc = "parse_returned"
    /\ Len(pieces) = 2
    /\ pieces[1].kind = "lv"
    /\ pieces[2].kind = "pxl"
    /\ ValidCalendar(pieces[1].f)
    /\ pieces[1].f.day # pieces[2].f.day
    /\ dt.kind = "datetime"
    /\ dt.day = pieces[2].f.day
    /\ searched = <<"pxl">>

\* C6: the pass of the loop over a file whose name matches neither token gets
\* None from parse_filename, adds one to failure_count, leaves success_count,
\* calls os.utime on nothing and leaves every time of every entry as it was.
C6_SkipTouchesNothing ==
    [][(/\ pc = "loop"
        /\ visited < Len(files)
        /\ visited' = visited + 1
        /\ NoToken(files[visited + 1]))
          => (/\ dt' = None
              /\ failure_count' = failure_count + 1
              /\ success_count' = success_count
              /\ utimed' = utimed
              /\ times' = times)]_vars

\* the first run updated one file, then skipped random_video.mov
C6_Witness ==
    /\ run = "first"
    /\ pc = "returned"
    /\ filename = TxtRandom \o ExtMov
    /\ dt = None
    /\ success_count = 1
    /\ failure_count = 1
    /\ times[filename].mtime = InitialTime

\* C7: the pass of the loop over a file whose name gives a date-time and on
\* which os.utime raises prints the error line at every verbosity, adds one
\* to failure_count, leaves success_count and stays in the loop.
C7_UpdateFailureReported ==
    [][(/\ pc = "loop"
        /\ visited < Len(files)
        /\ visited' = visited + 1
        /\ dt'.kind = "datetime"
        /\ files[visited + 1] \in failing)
          => (/\ Len(out') > Len(out)
              /\ out'[Len(out')] = Line("Error updating", files[visited + 1])
              /\ failure_count' = failure_count + 1
              /\ success_count' = success_count
              /\ pc' = "loop")]_vars

\* at verbosity 0 the update of the first file failed and was reported, and
\* the second file was then updated
C7_Witness ==
    /\ run = "first"
    /\ verbose = 0
    /\ visited = 2
    /\ files[1] \in failing
    /\ success_count = 1
    /\ failure_count = 1
    /\ \E k \in 1..Len(out) : out[k] = Line("Error updating", files[1])
    /\ times[files[2]].mtime # InitialTime

\* C8: a second run on the directory as the first run left it ends as the
\* first run did, with the same two counts, and leaves every entry the
\* modification time the first run left it.
C8_Idempotent ==
    (run = "again" /\ RunOver)
        => (/\ pc = first.pc
            /\ success_count = first.success_count
            /\ failure_count = first.failure_count
            /\ \A e \in entries : times[e].mtime = first.times[e].mtime)

\* a second run on the directory left by the first returned, with an updated
\* file and a failure
C8_Witness ==
    /\ run = "again"
    /\ pc = "returned"
    /\ success_count = 1
    /\ failure_count = 1
    /\ \E e \in entries : times[e].mtime # InitialTime

\* C9: a run from the same initial directory at any other verbosity ends as
\* the first run did, with the same two counts and the same times of every
\* entry.
C9_VerbosityOnlyNarrates ==
    (run = "fresh" /\ RunOver)
        => (/\ pc = first.pc
            /\ success_count = first.success_count
            /\ failure_count = first.failure_count
            /\ times = first.times)

\* two runs at different verbosities returned, with an updated file and a
\* skipped file
C9_Witness ==
    /\ run = "fresh"
    /\ pc = "returned"
    /\ verbose # first.verbose
    /\ success_count = 1
    /\ failure_count = 1
    /\ \E k \in 1..Len(files) : NoToken(files[k])

\* C10: in a run the two counts sum to the number of files visited, at the
\* return to the number of files enumerated, and success_count is the number
\* of files whose times were set.
C10_Tally ==
    pc \in {"loop", "returned", "raised"}
        => (/\ success_count + failure_count = visited
            /\ success_count = Cardinality(utimed \ failing)
            /\ pc = "returned" => success_count + failure_count = Len(files))

====
